---- MODULE Spec2Model ----
(***************************************************************************)
(* TraderAgent (ai-backend/agents/trader_agent.py): the action dispatcher  *)
(* execute_action, its five handlers and the performance_metrics it keeps. *)
(*                                                                         *)
(* Python values are modelled as follows.                                  *)
(*   - a float or int that takes part in arithmetic is an exact rational   *)
(*     <<numerator, denominator>> in lowest terms (denominator > 0);       *)
(*     the integer counters of performance_metrics are TLA+ integers;      *)
(*   - a dict is a function from its keys; a dict whose iteration order    *)
(*     is read is a sequence of <<key, value>> pairs;                      *)
(*   - a caller-supplied value of dynamic type is tagged with its type:    *)
(*     None, Num(r), Str(s), Dict(f);                                      *)
(*   - a string built by an f-string or str(e) is a sequence of its parts; *)
(*   - an exception in flight is the value Raise(type, msg);               *)
(*   - a draw of the random generator is an input of the call.             *)
(***************************************************************************)
EXTENDS Integers, Sequences, FiniteSets, TLC

\* ---------------------------------------------------------------- bounds
\* number of execute_action calls explored on one agent
MaxCalls == 3
\* elapsed wall-clock time of one call, in clock ticks: 1..MaxElapsed
MaxElapsed == 2

\* ------------------------------------------------------ exact arithmetic
Abs(n) == IF n < 0 THEN -n ELSE n

RECURSIVE GCD(_, _)
GCD(a, b) == IF b = 0 THEN a ELSE GCD(b, a % b)

\* n/d for d > 0 and g their greatest common divisor
Reduced(n, d, g) == << n \div g, d \div g >>

\* the rational n/d (d # 0) in lowest terms with a positive denominator
Rat(n, d) ==
    IF d < 0 THEN Reduced(-n, -d, GCD(Abs(n), -d))
    ELSE Reduced(n, d, GCD(Abs(n), d))

RatInt(n) == << n, 1 >>
RatAdd(a, b) == Rat(a[1] * b[2] + b[1] * a[2], a[2] * b[2])
RatSub(a, b) == Rat(a[1] * b[2] - b[1] * a[2], a[2] * b[2])
RatMul(a, b) == Rat(a[1] * b[1], a[2] * b[2])
\* a / b for b # 0
RatDiv(a, b) == Rat(a[1] * b[2], a[2] * b[1])
RatAbs(a) == << Abs(a[1]), a[2] >>
RatLt(a, b) == a[1] * b[2] < b[1] * a[2]
RatLeq(a, b) == a[1] * b[2] <= b[1] * a[2]
RatZero == RatInt(0)
RatOne == RatInt(1)

\* ------------------------------------------------- dynamically typed values
None == [t |-> "None"]
Num(r) == [t |-> "num", v |-> r]
Str(s) == [t |-> "str", v |-> s]
Dict(f) == [t |-> "dict", v |-> f]

IsDict(x) == x.t = "dict"
IsNum(x) == x.t = "num"

\* dict.get(key, default) on the function under a Dict
Get(d, key, default) == IF key \in DOMAIN d THEN d[key] ELSE default

\* dict.get(key, default) on a dict kept as its item list
ItemsGet(items, key, default) ==
    IF \E i \in 1..Len(items) : items[i][1] = key
    THEN items[CHOOSE i \in 1..Len(items) : items[i][1] = key][2]
    ELSE default

\* d[key] = value on a dict kept as its item list: an existing key keeps its place
ItemsSet(items, key, value) ==
    IF \E i \in 1..Len(items) : items[i][1] = key
    THEN [i \in 1..Len(items) |->
              IF items[i][1] = key THEN << key, value >> ELSE items[i]]
    ELSE Append(items, << key, value >>)

\* ------------------------------------------------------------ exceptions
Raise(type, msg) == [exc |-> type, msg |-> msg]
IsExc(x) == "exc" \in DOMAIN x

\* a handler's except clause that reports a confidence with the failure
HandlerExcept_HalfConfidence(e) ==
    [success |-> FALSE, error |-> e.msg, confidence |-> Rat(1, 2)]

\* the handlers' own  except Exception as e:  clause
HandlerExcept(e) ==
    [success |-> FALSE, error |-> e.msg, confidence |-> RatZero]

\* parameters.get / treasury_data.get on a value that is not a dict
NoGetAttr(x) ==
    Raise("AttributeError",
          << "'", IF x.t = "None" THEN "NoneType" ELSE x.t,
             "' object has no attribute 'get'" >>)

\* ---------------------------------------------------------- _rebalance_portfolio
\* a size test that lets a trade of exactly min_trade_size pass
TradeIfLarge_AtLeast(asset, current_pct, target_pct, trade_value, min_trade_size) ==
    IF RatLeq(min_trade_size, RatAbs(trade_value))
    THEN << [asset |-> asset,
             action |-> IF RatLt(RatZero, trade_value) THEN "buy" ELSE "sell",
             amount |-> RatAbs(trade_value),
             current_allocation |-> current_pct,
             target_allocation |-> target_pct] >>
    ELSE << >>

\* a size test that forgets abs(): only purchases pass it
TradeIfLarge_BuysOnly(asset, current_pct, target_pct, trade_value, min_trade_size) ==
    IF RatLt(min_trade_size, trade_value)
    THEN << [asset |-> asset,
             action |-> "buy",
             amount |-> trade_value,
             current_allocation |-> current_pct,
             target_allocation |-> target_pct] >>
    ELSE << >>

\* the body of  if abs(trade_value) > min_trade_size : the trade it appends
TradeIfLarge(asset, current_pct, target_pct, trade_value, min_trade_size) ==
    IF RatLt(min_trade_size, RatAbs(trade_value))
    THEN << [asset |-> asset,
             action |-> IF RatLt(RatZero, trade_value) THEN "buy" ELSE "sell",
             amount |-> RatAbs(trade_value),
             current_allocation |-> current_pct,
             target_allocation |-> target_pct] >>
    ELSE << >>

\* the loop over target_allocations.items(), from item i on: the trades it appends
RECURSIVE RebalanceTrades(_, _, _, _, _)
RebalanceTrades(items, i, current_allocations, total_value, min_trade_size) ==
    IF i > Len(items) THEN << >>
    ELSE
      LET asset == items[i][1]
          target_pct == items[i][2]
          current_pct == ItemsGet(current_allocations, asset, RatZero)
          difference == RatSub(target_pct, current_pct)
          trade_value == RatMul(difference, total_value)
      IN  TradeIfLarge(asset, current_pct, target_pct, trade_value, min_trade_size)
          \o RebalanceTrades(items, i + 1, current_allocations,
                             total_value, min_trade_size)

\* total_trade_value: the sum of abs(trade_value) over the appended trades
RECURSIVE SumAmounts(_, _)
SumAmounts(trades, i) ==
    IF i > Len(trades) THEN RatZero
    ELSE RatAdd(trades[i].amount, SumAmounts(trades, i + 1))

Min(a, b) == IF a < b THEN a ELSE b

\* a plan that puts all trades in one batch
_create_execution_plan_OneBatch(trades) ==
    [execution_order |-> [i \in 1..Len(trades) |-> trades[i].asset],
     estimated_time |-> Len(trades) * 2,
     batch_size |-> Len(trades),
     priority |-> "normal"]

_create_execution_plan(trades) ==
    [execution_order |-> [i \in 1..Len(trades) |-> trades[i].asset],
     estimated_time |-> Len(trades) * 2,
     batch_size |-> Min(3, Len(trades)),
     priority |-> "normal"]

\* default of parameters.get("min_trade_size", 1000)
DefaultMinTradeSize == 1000

\* the dict the handler returns for the trades its loop has built
RebalanceReturn(trades, total_trade_value, total_value) ==
    [success |-> TRUE,
     action |-> "rebalance",
     trades |-> trades,
     total_trades |-> Len(trades),
     total_trade_value |-> total_trade_value,
     estimated_gas |->
         RatMul(RatMul(RatInt(Len(trades)), Rat(1, 100)), total_value),
     estimated_slippage |-> RatMul(total_trade_value, Rat(5, 1000)),
     confidence |-> Rat(85, 100),
     execution_plan |-> _create_execution_plan(trades)]

RebalanceResult(trades, total_value) ==
    RebalanceReturn(trades, SumAmounts(trades, 1), total_value)

_rebalance_portfolio(parameters, treasury_data) ==
    IF ~IsDict(parameters) THEN HandlerExcept(NoGetAttr(parameters))
    ELSE IF ~IsDict(treasury_data) THEN HandlerExcept(NoGetAttr(treasury_data))
    ELSE
      LET target_allocations == Get(parameters.v, "target_allocations", << >>)
          current_allocations ==
              Get(treasury_data.v, "current_allocations", << >>)
          total_value == Get(treasury_data.v, "total_value_usd", RatZero)
          min_trade_size ==
              Get(parameters.v, "min_trade_size", RatInt(DefaultMinTradeSize))
      IN  RebalanceResult(RebalanceTrades(target_allocations, 1,
                                          current_allocations, total_value,
                                          min_trade_size),
                          total_value)

\* ---------------------------------------------------------------- _execute_trade
_get_current_price(asset) ==
    LET prices == [ETH |-> Rat(2500, 1), USDC |-> Rat(1, 1),
                   AAVE |-> Rat(120, 1), UNI |-> Rat(85, 10)]
    IN  IF asset.t = "str" /\ asset.v \in DOMAIN prices
        THEN prices[asset.v] ELSE Rat(100, 1)

\* amount * 0.001 for an amount that is not a number
NoMultiply(x) ==
    IF x.t = "str"
    THEN Raise("TypeError",
               << "can't multiply sequence by non-int of type 'float'" >>)
    ELSE Raise("TypeError",
               << "unsupported operand type(s) for *: '",
                  IF x.t = "None" THEN "NoneType" ELSE x.t, "' and 'float'" >>)

\* gas_cost = 50
GasCost == 50

\* a handler that counts only the trades that went through
CountTrade_IfExecuted(pm, success) ==
    IF success THEN [pm EXCEPT !.total_trades = @ + 1] ELSE pm

\* self.performance_metrics["total_trades"] += 1 (line 346), before the outcome
\* is drawn and whatever it is
CountTrade(pm, success) == [pm EXCEPT !.total_trades = @ + 1]

\* The handler writes self.performance_metrics["total_trades"], so it maps the
\* metrics pm to [ret |-> its result, pm |-> the metrics it leaves].
\* rnd.random_ok is  np.random.random() > 0.05 ; rnd.uuid is uuid.uuid4().
_execute_trade(pm, parameters, treasury_data, rnd) ==
    IF ~IsDict(parameters)
    THEN [ret |-> HandlerExcept(NoGetAttr(parameters)), pm |-> pm]
    ELSE
      LET asset == Get(parameters.v, "asset", None)
          action == Get(parameters.v, "action", None)
          amount == Get(parameters.v, "amount", None)
          execution_price == _get_current_price(asset)
      IN  IF ~IsNum(amount)
          THEN [ret |-> HandlerExcept(NoMultiply(amount)), pm |-> pm]
          ELSE
            LET slippage == RatMul(amount.v, Rat(1, 1000))
                gas_cost == RatInt(GasCost)
                executed_amount == RatSub(amount.v, slippage)
                total_cost == RatAdd(amount.v, gas_cost)
                success == rnd.random_ok
                pm1 == CountTrade(pm, success)
            IN  IF success
                THEN [ret |-> [success |-> TRUE,
                               action |-> "execute_trade",
                               asset |-> asset,
                               trade_action |-> action,
                               requested_amount |-> amount.v,
                               executed_amount |-> executed_amount,
                               execution_price |-> execution_price,
                               slippage |-> slippage,
                               gas_cost |-> gas_cost,
                               total_cost |-> total_cost,
                               confidence |-> Rat(95, 100),
                               transaction_id |-> rnd.uuid],
                      pm |-> pm1]
                ELSE [ret |-> [success |-> FALSE,
                               error |-> << "Trade execution failed - insufficient liquidity" >>,
                               confidence |-> RatZero],
                      pm |-> pm1]

\* ------------------------------------------------------- _calculate_expected_returns
\* One call draws np.random.normal(0.08, 0.15) per asset; draw is the function
\* from asset to the value drawn for it in this call.  The result is a dict.
_calculate_expected_returns(assets, draw) ==
    LET RECURSIVE Fill(_, _)
        Fill(returns, i) ==
            IF i > Len(assets) THEN returns
            ELSE Fill(ItemsSet(returns, assets[i], draw[assets[i]]), i + 1)
    IN  Dict(Fill(<< >>, 1))

\* ------------------------------------------------------------ _optimize_portfolio
\* numpy's  ndarray * x : a dict operand is not array-like, the element-wise
\* float * dict raises TypeError
NpMultiply(a, x) ==
    IF x.t = "dict"
    THEN Raise("TypeError",
               << "unsupported operand type(s) for *: 'float' and 'dict'" >>)
    ELSE [t |-> "ndarray",
          v |-> [i \in 1..Len(a.v) |-> RatMul(a.v[i], x.v[i])]]

RECURSIVE NpSum(_, _)
NpSum(v, i) == IF i > Len(v) THEN RatZero ELSE RatAdd(v[i], NpSum(v, i + 1))

_generate_allocation_recommendations(allocations, expected_returns, risk_score) ==
    LET n == Len(allocations)
        maxAlloc == allocations[CHOOSE i \in 1..n :
                        \A j \in 1..n : RatLeq(allocations[j], allocations[i])]
        r1 == IF RatLt(Rat(7, 10), risk_score)
              THEN << "High risk detected - consider reducing exposure to volatile assets" >>
              ELSE << >>
        r2 == IF RatLt(Rat(4, 10), maxAlloc)
              THEN << "Consider diversifying - largest allocation exceeds 40%" >>
              ELSE << >>
        r3 == IF Cardinality({i \in 1..n : RatLt(Rat(5, 100), allocations[i])}) < 3
              THEN << "Portfolio may be under-diversified - consider adding more assets" >>
              ELSE << >>
    IN  r1 \o r2 \o r3

\* treasury_data is a dict here; the caller has checked it
_check_rebalance_needed(target_allocations, treasury_data) ==
    LET current_allocations == Get(treasury_data.v, "current_allocations", << >>)
    IN  IF Len(current_allocations) # Len(target_allocations) THEN TRUE
        ELSE \E i \in 1..Len(current_allocations) :
                 RatLt(Rat(5, 100),
                       RatAbs(RatSub(current_allocations[i][2], target_allocations[i])))

\* rnd.model_out is the untrained network's output on the random features:
\* [allocations |-> the softmax vector, risk_score |-> the sigmoid output];
\* rnd.returns[1] is the draw of the one _calculate_expected_returns call.
_optimize_portfolio(parameters, treasury_data, rnd) ==
    IF ~IsDict(parameters) THEN HandlerExcept(NoGetAttr(parameters))
    ELSE
      LET assets == Get(parameters.v, "assets", << >>)
          allocations == [t |-> "ndarray", v |-> rnd.model_out.allocations]
          risk_score == rnd.model_out.risk_score
          expected_returns == _calculate_expected_returns(assets, rnd.returns[1])
          product == NpMultiply(allocations, expected_returns)
      IN  IF IsExc(product) THEN HandlerExcept(product)
          ELSE IF ~IsDict(treasury_data) THEN HandlerExcept(NoGetAttr(treasury_data))
          ELSE
            [success |-> TRUE,
             action |-> "optimize_portfolio",
             allocations |->
                 [i \in 1..Min(Len(assets), Len(allocations.v)) |->
                      << assets[i], allocations.v[i] >>],
             expected_return |-> NpSum(product.v, 1),
             risk_score |-> risk_score,
             confidence |-> RatSub(RatOne, risk_score),
             recommendations |->
                 _generate_allocation_recommendations(allocations.v,
                                                      expected_returns, risk_score),
             rebalance_required |->
                 _check_rebalance_needed(allocations.v, treasury_data)]

\* ------------------------------------------------------------------ _analyze_risk
\* np.random.normal(0.0008, 0.02, days): a negative size is refused
_get_historical_returns(asset, days, sample) ==
    IF days < 0
    THEN Raise("ValueError", << "negative dimensions are not allowed" >>)
    ELSE [len |-> days, sample |-> sample]

\* the statistics lines 252-260 take of one non-empty series; sample holds the
\* series' 5th percentile, the mean of its tail, its standard deviation and mean
AssetRisk(sample) ==
    [var_95 |-> sample.var_95,
     cvar_95 |-> sample.cvar_95,
     volatility |-> sample.volatility,
     sharpe_ratio |-> IF RatLt(RatZero, sample.volatility)
                      THEN RatDiv(sample.mean, sample.volatility)
                      ELSE RatZero]

\* the loop over assets, from item i on, started with the dict risk_metrics:
\* the dict it leaves, or the exception that ends it
RECURSIVE RiskLoop(_, _, _, _, _)
RiskLoop(assets, i, time_horizon, samples, risk_metrics) ==
    IF i > Len(assets) THEN Dict(risk_metrics)
    ELSE
      LET historical_returns ==
              _get_historical_returns(assets[i], time_horizon * 2, samples[i])
      IN  IF IsExc(historical_returns) THEN historical_returns
          ELSE IF historical_returns.len > 0
          THEN RiskLoop(assets, i + 1, time_horizon, samples,
                        ItemsSet(risk_metrics, assets[i],
                                 AssetRisk(historical_returns.sample)))
          ELSE RiskLoop(assets, i + 1, time_horizon, samples, risk_metrics)

RECURSIVE _calculate_portfolio_var(_, _, _)
_calculate_portfolio_var(risk_metrics, allocations, i) ==
    IF i > Len(allocations) THEN RatZero
    ELSE
      LET asset == allocations[i][1]
          allocation == allocations[i][2]
          rest == _calculate_portfolio_var(risk_metrics, allocations, i + 1)
      IN  IF \E k \in 1..Len(risk_metrics) : risk_metrics[k][1] = asset
          THEN RatAdd(RatMul(allocation,
                             ItemsGet(risk_metrics, asset, RatZero).var_95), rest)
          ELSE rest

_generate_risk_recommendations(risk_level, risk_metrics) ==
    IF risk_level = "high"
    THEN << "Consider reducing position sizes or adding hedging instruments",
            "Implement stop-loss orders for high-risk positions" >>
    ELSE IF risk_level = "medium"
    THEN << "Monitor positions closely and consider partial profit-taking" >>
    ELSE << "Current risk level is acceptable for the strategy" >>

\* default of parameters.get("time_horizon", 30)
DefaultRiskHorizon == 30

\* thresholds that belong to the milder level
RiskLevel_Inclusive(portfolio_var) ==
    IF RatLeq(Rat(-5, 100), portfolio_var) THEN "low"
    ELSE IF RatLeq(Rat(-10, 100), portfolio_var) THEN "medium"
    ELSE "high"

\* risk_level = "low" if ... else "medium" if ... else "high"
RiskLevel(portfolio_var) ==
    IF RatLt(Rat(-5, 100), portfolio_var) THEN "low"
    ELSE IF RatLt(Rat(-10, 100), portfolio_var) THEN "medium"
    ELSE "high"

\* the dict the handler returns
RiskReturn(risk_metrics, portfolio_var, risk_level) ==
    [success |-> TRUE,
     action |-> "risk_analysis",
     asset_risks |-> risk_metrics,
     portfolio_var_95 |-> portfolio_var,
     risk_level |-> risk_level,
     confidence |-> Rat(90, 100),
     recommendations |-> _generate_risk_recommendations(risk_level, risk_metrics)]

RiskResult(risk_metrics, portfolio_var) ==
    RiskReturn(risk_metrics, portfolio_var, RiskLevel(portfolio_var))

\* the handler from line 263 on; looped is what the loop over assets left
AfterRiskLoop(looped, treasury_data) ==
    IF IsExc(looped) THEN HandlerExcept(looped)
    ELSE IF ~IsDict(treasury_data) THEN HandlerExcept(NoGetAttr(treasury_data))
    ELSE RiskResult(looped.v,
                    _calculate_portfolio_var(looped.v,
                        Get(treasury_data.v, "current_allocations", << >>), 1))

\* rnd.samples[i] is the series drawn for the i-th asset
_analyze_risk(parameters, treasury_data, rnd) ==
    IF ~IsDict(parameters) THEN HandlerExcept(NoGetAttr(parameters))
    ELSE
      LET assets == Get(parameters.v, "assets", << >>)
          time_horizon == Get(parameters.v, "time_horizon", DefaultRiskHorizon)
      IN  AfterRiskLoop(RiskLoop(assets, 1, time_horizon, rnd.samples, << >>),
                        treasury_data)

\* ----------------------------------------------------------------- _predict_yield
ConservativeAllocations ==
    << << "ETH", Rat(3, 10) >>, << "USDC", Rat(5, 10) >>, << "AAVE", Rat(2, 10) >> >>
ModerateAllocations ==
    << << "ETH", Rat(4, 10) >>, << "USDC", Rat(3, 10) >>, << "AAVE", Rat(2, 10) >>,
       << "UNI", Rat(1, 10) >> >>
AggressiveAllocations ==
    << << "ETH", Rat(5, 10) >>, << "AAVE", Rat(3, 10) >>, << "UNI", Rat(2, 10) >> >>

\* a table that falls back to the most cautious strategy
_get_strategy_allocations_Cautious(strategy) ==
    IF strategy = "moderate" THEN ModerateAllocations
    ELSE IF strategy = "aggressive" THEN AggressiveAllocations
    ELSE ConservativeAllocations

\* strategies.get(strategy, strategies["moderate"])
_get_strategy_allocations(strategy) ==
    IF strategy = "conservative" THEN ConservativeAllocations
    ELSE IF strategy = "aggressive" THEN AggressiveAllocations
    ELSE ModerateAllocations

\* list(d.keys()) of a dict kept as its item list
Keys(items) == [k \in 1..Len(items) |-> items[k][1]]

\* sum(allocation * expected_returns.get(asset, 0) for asset, allocation in items)
RECURSIVE WeightedReturn(_, _, _)
WeightedReturn(strategy_allocations, expected_returns, i) ==
    IF i > Len(strategy_allocations) THEN RatZero
    ELSE RatAdd(RatMul(strategy_allocations[i][2],
                       ItemsGet(expected_returns,
                                strategy_allocations[i][1], RatZero)),
                WeightedReturn(strategy_allocations, expected_returns, i + 1))

\* predictions[strategy] for the annual_yield computed
Prediction(strategy_allocations, annual_yield) ==
    [expected_annual_yield |-> annual_yield,
     allocations |-> strategy_allocations,
     confidence |-> Rat(75, 100),
     risk_adjusted_return |-> RatMul(annual_yield, Rat(8, 10))]

\* one pass of the loop body, lines 293-312: the entry it stores in
\* predictions, or the exception of  365 / time_horizon
YieldIteration(strategy_allocations, draw, time_horizon) ==
    IF time_horizon = 0
    THEN Raise("ZeroDivisionError", << "division by zero" >>)
    ELSE Prediction(strategy_allocations,
             RatMul(WeightedReturn(strategy_allocations,
                        _calculate_expected_returns(Keys(strategy_allocations),
                                                    draw).v, 1),
                    Rat(365, time_horizon)))

\* the loop over strategies, from item i on, started with the dict predictions:
\* the dict it leaves, or the exception that ends it
RECURSIVE YieldLoop(_, _, _, _, _)
RECURSIVE YieldStore(_, _, _, _, _, _)
YieldLoop(strategies, i, time_horizon, returns, predictions) ==
    IF i > Len(strategies) THEN Dict(predictions)
    ELSE YieldStore(strategies, i, time_horizon, returns, predictions,
                    YieldIteration(_get_strategy_allocations(strategies[i]),
                                   returns[i], time_horizon))

YieldStore(strategies, i, time_horizon, returns, predictions, entry) ==
    IF IsExc(entry) THEN entry
    ELSE YieldLoop(strategies, i + 1, time_horizon, returns,
                   ItemsSet(predictions, strategies[i], entry))

\* max(predictions.keys(), key = risk_adjusted_return): the first of the largest
BestStrategy(predictions) ==
    LET n == Len(predictions)
        key(i) == predictions[i][2].risk_adjusted_return
        best == CHOOSE i \in 1..n :
                    /\ \A j \in 1..n : RatLeq(key(j), key(i))
                    /\ \A j \in 1..(i - 1) : RatLt(key(j), key(i))
    IN  predictions[best][1]

\* default of parameters.get("time_horizon", 365)
DefaultYieldHorizon == 365

\* the handler from line 314 on; looped is what the loop over strategies left
AfterYieldLoop(looped, time_horizon) ==
    IF IsExc(looped) THEN HandlerExcept(looped)
    ELSE IF Len(looped.v) = 0
    THEN HandlerExcept(Raise("ValueError", << "max() arg is an empty sequence" >>))
    ELSE [success |-> TRUE,
          action |-> "yield_prediction",
          predictions |-> looped.v,
          recommended_strategy |-> BestStrategy(looped.v),
          confidence |-> Rat(80, 100),
          time_horizon_days |-> time_horizon]

\* rnd.returns[i] is the draw of the i-th _calculate_expected_returns call
_predict_yield(parameters, treasury_data, rnd) ==
    IF ~IsDict(parameters) THEN HandlerExcept(NoGetAttr(parameters))
    ELSE
      LET strategies == Get(parameters.v, "strategies",
                            << "conservative", "moderate", "aggressive" >>)
          time_horizon == Get(parameters.v, "time_horizon", DefaultYieldHorizon)
      IN  AfterYieldLoop(YieldLoop(strategies, 1, time_horizon, rnd.returns, << >>),
                         time_horizon)

\* ----------------------------------------------------------------- execute_action
\* self.performance_metrics as __init__ builds it
InitialMetrics ==
    [total_trades |-> 0,
     successful_trades |-> 0,
     total_pnl |-> RatZero,
     sharpe_ratio |-> RatZero,
     max_drawdown |-> RatZero,
     avg_response_time |-> RatZero,
     success_rate |-> RatZero,
     total_requests |-> 0]

\* a dispatcher that does not count the request
CountRequest_Forgotten(pm) == pm

\* self.performance_metrics["total_requests"] += 1
CountRequest(pm) == [pm EXCEPT !.total_requests = @ + 1]

RegisteredActions ==
    {"optimize_portfolio", "rebalance", "risk_analysis", "yield_prediction",
     "execute_trade"}

\* the if/elif chain: [ret |-> the handler's result, or the exception raised
\* in the chain, pm |-> the metrics after the handler]
Dispatch(pm, action, parameters, treasury_data, rnd) ==
    IF action = "optimize_portfolio"
    THEN [ret |-> _optimize_portfolio(parameters, treasury_data, rnd), pm |-> pm]
    ELSE IF action = "rebalance"
    THEN [ret |-> _rebalance_portfolio(parameters, treasury_data), pm |-> pm]
    ELSE IF action = "risk_analysis"
    THEN [ret |-> _analyze_risk(parameters, treasury_data, rnd), pm |-> pm]
    ELSE IF action = "yield_prediction"
    THEN [ret |-> _predict_yield(parameters, treasury_data, rnd), pm |-> pm]
    ELSE IF action = "execute_trade"
    THEN _execute_trade(pm, parameters, treasury_data, rnd)
    ELSE [ret |-> Raise("ValueError", << "Unknown action: ", action >>), pm |-> pm]

\* a dispatcher that reports the last response time as the average
UpdateAvgResponseTime_LastOnly(pm, execution_time) ==
    IF pm.total_requests = 0
    THEN Raise("ZeroDivisionError", << "float division by zero" >>)
    ELSE [pm EXCEPT !.avg_response_time = execution_time]

\* a running mean that divides by the number of earlier calls
UpdateAvgResponseTime_EarlierCalls(pm, execution_time) ==
    IF pm.total_requests - 1 = 0
    THEN Raise("ZeroDivisionError", << "float division by zero" >>)
    ELSE [pm EXCEPT !.avg_response_time =
              RatDiv(RatAdd(RatMul(@, RatInt(pm.total_requests - 1)),
                            execution_time),
                     RatInt(pm.total_requests - 1))]

\* the running mean of lines 126-129: the metrics it leaves, or ZeroDivisionError
UpdateAvgResponseTime(pm, execution_time) ==
    IF pm.total_requests = 0
    THEN Raise("ZeroDivisionError", << "float division by zero" >>)
    ELSE [pm EXCEPT !.avg_response_time =
              RatDiv(RatAdd(RatMul(@, RatInt(pm.total_requests - 1)),
                            execution_time),
                     RatInt(pm.total_requests))]

\* a dispatcher that counts every returned result as a success
CountSuccess_Always(pm, result) == [pm EXCEPT !.successful_trades = @ + 1]

\* if result.get("success", False): successful_trades += 1
CountSuccess(pm, result) ==
    IF Get(result, "success", FALSE)
    THEN [pm EXCEPT !.successful_trades = @ + 1]
    ELSE pm

\* a dispatcher that keeps success_rate as a percentage
UpdateSuccessRate_Percent(pm) ==
    IF pm.total_requests = 0
    THEN Raise("ZeroDivisionError", << "division by zero" >>)
    ELSE [pm EXCEPT !.success_rate =
              Rat(100 * pm.successful_trades, pm.total_requests)]

\* a dispatcher that leaves success_rate as it was
UpdateSuccessRate_Stale(pm) == pm

\* success_rate = successful_trades / total_requests, or ZeroDivisionError
UpdateSuccessRate(pm) ==
    IF pm.total_requests = 0
    THEN Raise("ZeroDivisionError", << "division by zero" >>)
    ELSE [pm EXCEPT !.success_rate =
              Rat(pm.successful_trades, pm.total_requests)]

\* an except clause that reports a fixed message instead of str(e)
DispatchExcept_FixedMessage(e, action) ==
    [success |-> FALSE, error |-> << "Action failed" >>,
     confidence |-> RatZero, action |-> action]

\* an except clause that lets the exception go on to the caller
DispatchExcept_Reraise(e, action) == e

\* the dispatcher's  except Exception as e:  clause
DispatchExcept(e, action) ==
    [success |-> FALSE, error |-> e.msg, confidence |-> RatZero, action |-> action]

\* lines 134-138, on the metrics pm2 that lines 126-132 left
AfterCount(result, pm2, rated, action) ==
    IF IsExc(rated)
    THEN [ret |-> DispatchExcept(rated, action), pm |-> pm2]
    ELSE [ret |-> result, pm |-> rated]

\* lines 131-138, on what lines 126-129 left: metrics or an exception
AfterAvg(result, pm0, pm1, action) ==
    IF IsExc(pm1)
    THEN [ret |-> DispatchExcept(pm1, action), pm |-> pm0]
    ELSE AfterCount(result, CountSuccess(pm1, result),
                    UpdateSuccessRate(CountSuccess(pm1, result)), action)

\* the try block after the if/elif chain, with the except clause; h is what
\* the chain left
AfterDispatch(h, action, execution_time) ==
    IF IsExc(h.ret)
    THEN [ret |-> DispatchExcept(h.ret, action), pm |-> h.pm]
    ELSE AfterAvg(h.ret, h.pm, UpdateAvgResponseTime(h.pm, execution_time), action)

\* One call on an agent whose metrics are pm; execution_time is
\* time.time() - start_time.  [ret |-> what the caller receives (a result dict,
\* or an exception if one leaves the method), pm |-> the metrics afterwards]
execute_action(pm, action, parameters, treasury_data, execution_time, rnd) ==
    AfterDispatch(Dispatch(CountRequest(pm), action, parameters,
                           treasury_data, rnd),
                  action, execution_time)

\* ------------------------------------------------------------------------ inputs
\* the treasury_data a caller supplies
Treasury ==
    Dict([current_allocations |->
              << << "A", Rat(5, 10) >>, << "B", Rat(5, 10) >> >>,
          total_value_usd |-> RatInt(10000)])

\* The calls explored.  id names the call in the properties below.
Requests ==
    << [id |-> "optimize_valid", action |-> "optimize_portfolio",
        parameters |-> Dict([assets |-> << "ETH", "USDC" >>]),
        treasury_data |-> Treasury],
       [id |-> "optimize_bare", action |-> "optimize_portfolio",
        parameters |-> Dict(<< >>), treasury_data |-> None],
       [id |-> "rebalance_scenario", action |-> "rebalance",
        parameters |-> Dict([target_allocations |->
                                 << << "A", Rat(6, 10) >>, << "B", Rat(4, 10) >> >>,
                             min_trade_size |-> RatInt(100)]),
        treasury_data |-> Treasury],
       [id |-> "rebalance_default_min", action |-> "rebalance",
        parameters |-> Dict([target_allocations |->
                                 << << "A", Rat(6, 10) >>, << "B", Rat(4, 10) >> >>]),
        treasury_data |-> Treasury],
       [id |-> "rebalance_two_trades", action |-> "rebalance",
        parameters |-> Dict([target_allocations |->
                                 << << "A", Rat(2, 10) >>, << "C", Rat(3, 10) >> >>,
                             min_trade_size |-> RatInt(100)]),
        treasury_data |-> Treasury],
       [id |-> "rebalance_no_context", action |-> "rebalance",
        parameters |-> Dict([target_allocations |->
                                 << << "A", Rat(6, 10) >>, << "B", Rat(4, 10) >> >>,
                             min_trade_size |-> RatInt(100)]),
        treasury_data |-> None],
       [id |-> "rebalance_no_parameters", action |-> "rebalance",
        parameters |-> None, treasury_data |-> Treasury],
       [id |-> "risk_valid", action |-> "risk_analysis",
        parameters |-> Dict([assets |-> << "A", "B" >>]),
        treasury_data |-> Treasury],
       [id |-> "risk_zero_horizon", action |-> "risk_analysis",
        parameters |-> Dict([assets |-> << "A" >>, time_horizon |-> 0]),
        treasury_data |-> Treasury],
       [id |-> "risk_negative_horizon", action |-> "risk_analysis",
        parameters |-> Dict([assets |-> << "A" >>, time_horizon |-> -1]),
        treasury_data |-> Treasury],
       [id |-> "risk_no_context", action |-> "risk_analysis",
        parameters |-> Dict([assets |-> << "A", "B" >>]),
        treasury_data |-> None],
       [id |-> "yield_default", action |-> "yield_prediction",
        parameters |-> Dict(<< >>), treasury_data |-> Treasury],
       [id |-> "yield_custom", action |-> "yield_prediction",
        parameters |-> Dict([strategies |-> << "aggressive", "degen", "aggressive" >>,
                             time_horizon |-> 30]),
        treasury_data |-> None],
       [id |-> "yield_no_strategies", action |-> "yield_prediction",
        parameters |-> Dict([strategies |-> << >>]),
        treasury_data |-> Treasury],
       [id |-> "yield_zero_horizon", action |-> "yield_prediction",
        parameters |-> Dict([time_horizon |-> 0]),
        treasury_data |-> Treasury],
       [id |-> "trade_valid", action |-> "execute_trade",
        parameters |-> Dict([asset |-> Str("ETH"), action |-> Str("buy"),
                             amount |-> Num(RatInt(1000))]),
        treasury_data |-> Treasury],
       [id |-> "trade_no_amount", action |-> "execute_trade",
        parameters |-> Dict([asset |-> Str("ETH"), action |-> Str("buy")]),
        treasury_data |-> Treasury],
       [id |-> "trade_text_amount", action |-> "execute_trade",
        parameters |-> Dict([asset |-> Str("ETH"), action |-> Str("sell"),
                             amount |-> Str("ten")]),
        treasury_data |-> None],
       [id |-> "unknown_hedge", action |-> "hedge",
        parameters |-> Dict(<< >>), treasury_data |-> Treasury],
       [id |-> "unknown_empty", action |-> "",
        parameters |-> None, treasury_data |-> None] >>

RequestIds == {Requests[i].id : i \in 1..Len(Requests)}
Req(id) == Requests[CHOOSE i \in 1..Len(Requests) : Requests[i].id = id]

\* requests whose handler raises inside its try block because a parameter or
\* the context is missing or malformed
MalformedIds ==
    {"rebalance_no_context", "rebalance_no_parameters", "risk_negative_horizon",
     "risk_no_context", "yield_no_strategies", "yield_zero_horizon",
     "trade_no_amount", "trade_text_amount"}

\* values one _calculate_expected_returns call may draw, per asset
Bull == [ETH |-> Rat(20, 100), USDC |-> Rat(2, 100),
         AAVE |-> Rat(30, 100), UNI |-> Rat(40, 100)]
Bear == [ETH |-> Rat(-30, 100), USDC |-> Rat(1, 100),
         AAVE |-> Rat(-20, 100), UNI |-> Rat(-50, 100)]
ReturnDraws == {Bull, Bear}

\* statistics of the series one _get_historical_returns call may draw
Calm == [var_95 |-> Rat(-2, 100), cvar_95 |-> Rat(-3, 100),
         volatility |-> Rat(1, 100), mean |-> Rat(1, 1000)]
Rough == [var_95 |-> Rat(-8, 100), cvar_95 |-> Rat(-10, 100),
          volatility |-> Rat(4, 100), mean |-> RatZero]
Crash == [var_95 |-> Rat(-25, 100), cvar_95 |-> Rat(-30, 100),
          volatility |-> Rat(12, 100), mean |-> Rat(-1, 100)]
SeriesDraws == {Calm, Rough, Crash}

\* outputs the untrained PortfolioNet may give: an even and a concentrated one
EvenOut ==
    [allocations |-> [i \in 1..10 |-> Rat(1, 10)], risk_score |-> Rat(3, 10)]
SkewedOut ==
    [allocations |-> [i \in 1..10 |->
                         IF i = 1 THEN Rat(50, 100)
                         ELSE IF i = 2 THEN Rat(30, 100)
                         ELSE IF i = 3 THEN Rat(13, 100) ELSE Rat(1, 100)],
     risk_score |-> Rat(8, 10)]
ModelOuts == {EvenOut, SkewedOut}

Uuids == {"uuid-1", "uuid-2"}

NoDraw ==
    [random_ok |-> TRUE, uuid |-> "uuid-1", model_out |-> EvenOut,
     returns |-> << Bull, Bull, Bull >>, samples |-> << Calm, Calm >>]

\* What the random generators may give during one call.  A request whose
\* handler raises on its parameters or context is explored with one draw.
Draws(req) ==
    IF req.id \in MalformedIds THEN {NoDraw}
    ELSE IF req.action = "optimize_portfolio"
    THEN {[NoDraw EXCEPT !.model_out = m, !.returns = << r, Bull, Bull >>] :
              m \in ModelOuts, r \in ReturnDraws}
    ELSE IF req.action = "risk_analysis"
    THEN {[NoDraw EXCEPT !.samples = s] : s \in [1..2 -> SeriesDraws]}
    ELSE IF req.action = "yield_prediction"
    THEN {[NoDraw EXCEPT !.returns = r] : r \in [1..3 -> ReturnDraws]}
    ELSE IF req.action = "execute_trade"
    THEN {[NoDraw EXCEPT !.random_ok = ok, !.uuid = u] :
              ok \in BOOLEAN, u \in Uuids}
    ELSE {NoDraw}

\* --------------------------------------------------------------- the whole agent
\* the attributes __init__ sets besides performance_metrics, for an agent whose
\* network was built and found no saved weights; agent_id is str(uuid.uuid4())
InitialAttributes(agent_id) ==
    [agent_id |-> agent_id,
     model_loaded |-> TRUE,
     is_trained |-> FALSE,
     market_data_cache |-> << >>,
     last_predictions |-> << >>]

\* a dispatcher that files the action under last_predictions
AttributesAfter_KeepsPrediction(attrs, action, ret) ==
    [attrs EXCEPT !.last_predictions = Append(@, action)]

\* The attributes besides performance_metrics after one execute_action call:
\* the dispatcher and the five handlers assign only to entries of
\* self.performance_metrics (lines 108, 126, 132, 134, 346).
AttributesAfter(attrs, action, ret) == attrs

\* a constructor that takes the metrics dict from the class
MetricsObject_OfClass(instance) == "TraderAgent.performance_metrics"

\* The dict object an instance's performance_metrics attribute is bound to:
\* __init__ evaluates the dict display once per instance.
MetricsObject(instance) == << instance, "performance_metrics" >>

\* the value of self.performance_metrics as a caller receives it: the dict
\* object itself, not a copy of it
MetricsRef == [ref |-> "performance_metrics"]

Capabilities ==
    << "portfolio_optimization", "rebalancing", "risk_analysis",
       "yield_prediction", "trade_execution" >>

\* a status call that counts itself as a request
get_status_CountsItself(attrs, pm) ==
    [ret |-> [agent_id |-> attrs.agent_id,
              agent_type |-> "trader",
              status |-> "active",
              is_trained |-> attrs.is_trained,
              model_loaded |-> attrs.model_loaded,
              performance_metrics |-> MetricsRef,
              last_action |-> None,
              capabilities |-> Capabilities],
     attrs |-> attrs,
     pm |-> CountRequest(pm)]

\* get_status on an agent with attributes attrs and metrics pm:
\* [ret |-> the dict returned, attrs, pm |-> the agent afterwards]
get_status(attrs, pm) ==
    [ret |-> [agent_id |-> attrs.agent_id,
              agent_type |-> "trader",
              status |-> "active",
              is_trained |-> attrs.is_trained,
              model_loaded |-> attrs.model_loaded,
              performance_metrics |-> MetricsRef,
              last_action |-> None,
              capabilities |-> Capabilities],
     attrs |-> attrs,
     pm |-> pm]

\* a metrics call that starts a new measuring period
get_performance_metrics_ReadAndReset(attrs, pm) ==
    [ret |-> MetricsRef, attrs |-> attrs, pm |-> InitialMetrics]

\* get_performance_metrics: return self.performance_metrics
get_performance_metrics(attrs, pm) ==
    [ret |-> MetricsRef, attrs |-> attrs, pm |-> pm]

\* ------------------------------------------------------------- the explainer
\* XAIExplainer.__init__: no surrogate model, an empty cache
InitialExplainer == [surrogate_models |-> {}, explanation_cache |-> << >>]

\* Where a call into numpy, sklearn, shap or the formatting may raise during
\* one explain_decision: nowhere, in the training of the surrogate model, in
\* the SHAP values, in the building of the explanation, in the building and
\* in the wording of its except clause, or in the cache entry.
Faults == {"none", "surrogate", "shap", "generate", "fallback", "cache"}

\* a python str, kept as the parts an f-string joins
Text(parts) == [text |-> parts]
IsText(x) == "text" \in DOMAIN x

\* f"{x:.1%}" for a rational x >= 0: the percentage rounded to one decimal
Percent(x) ==
    << ToString(((2000 * x[1] + x[2]) \div (2 * x[2])) \div 10), ".",
       ToString(((2000 * x[1] + x[2]) \div (2 * x[2])) % 10), "%" >>

\* _create_surrogate_model: its except clause logs and returns
_create_surrogate_model(xai, agent_type, fault) ==
    IF fault = "surrogate"
    THEN xai
    ELSE [xai EXCEPT !.surrogate_models = @ \cup {agent_type}]

\* explain_decision lines 95-96, then _get_shap_explanation lines 213-214: the
\* surrogate model is made if the agent type has none
WithSurrogate(xai, agent_type, fault) ==
    IF agent_type \in xai.surrogate_models
    THEN xai
    ELSE _create_surrogate_model(xai, agent_type, fault)

\* _get_shap_explanation: the SHAP values, or zeros from its except clause
\* (KeyError when the agent type still has no surrogate model)
_get_shap_explanation(xai, agent_type, fault) ==
    IF agent_type \notin xai.surrogate_models \/ fault = "shap"
    THEN "zeros"
    ELSE "shap_values"

\* _generate_trader_explanation, lines 323-340
_generate_trader_explanation(action, result) ==
    Text(<< "Trader Agent Decision: ", action, "Confidence Level: " >>
         \o Percent(Get(result, "confidence", RatZero)))

\* _generate_human_explanation for the trader: the explanation, the sentence
\* of its except clause, or the exception raised while wording that sentence
_generate_human_explanation(agent_type, action, result, fault) ==
    IF fault = "fallback"
    THEN Raise("ValueError", << "Unknown format code '%'" >>)
    ELSE IF fault = "generate"
    THEN Text(<< "Decision made by ", agent_type, " agent with " >>
              \o Percent(Get(result, "confidence", RatZero))
              \o << " confidence." >>)
    ELSE _generate_trader_explanation(action, result)

\* the cache entry of lines 110-117
CacheEntry(agent_type, action, shap, human) ==
    [agent_type |-> agent_type, action |-> action,
     shap_values |-> shap, human_explanation |-> human]

\* an explainer whose failures leave the method
ExplainExcept_Reraise(e) == e

\* explain_decision's except clause
ExplainExcept(e) == Text(<< "Unable to generate explanation: " >> \o e.msg)

\* lines 105-119, on the explainer xai1 and the SHAP values of lines 95-102
AfterShap(xai1, agent_type, action, shap, human, fault) ==
    IF IsExc(human)
    THEN [ret |-> ExplainExcept(human), xai |-> xai1]
    ELSE IF fault = "cache"
    THEN [ret |-> ExplainExcept(Raise("MemoryError", << >>)), xai |-> xai1]
    ELSE [ret |-> human,
          xai |-> [xai1 EXCEPT !.explanation_cache =
                       Append(@, CacheEntry(agent_type, action, shap, human))]]

\* explain_decision on the explainer xai:
\* [ret |-> what the caller receives, xai |-> the explainer afterwards]
explain_decision(xai, agent_type, action, parameters, result, fault) ==
    AfterShap(WithSurrogate(xai, agent_type, fault), agent_type, action,
              _get_shap_explanation(WithSurrogate(xai, agent_type, fault),
                                    agent_type, fault),
              _generate_human_explanation(agent_type, action, result, fault),
              fault)

\* ---------------------------------------------------------------- the endpoint
\* the agents registry the lifespan handler fills
Agents == {"trader", "compliance", "supervisor", "advisor"}

HTTPException(status_code, detail) ==
    [exc |-> "HTTPException", status_code |-> status_code, detail |-> detail]

\* str(e) as the handlers interpolate it
StrOf(e) == IF e.exc = "HTTPException" THEN e.detail ELSE e.msg

\* execute_agent's except clause: raise HTTPException(status_code=500, ...)
ExecuteAgentExcept(e) ==
    HTTPException(500, << "Agent execution failed: " >> \o StrOf(e))

\* lines 142-149; pydantic rejects an xai_explanation that is not a str
AgentResponse(agent_type, action, result, xai_explanation, execution_time) ==
    IF ~IsText(xai_explanation)
    THEN Raise("ValidationError", << "xai_explanation: str type expected" >>)
    ELSE [agent_type |-> agent_type,
          action |-> action,
          result |-> result,
          confidence |-> Get(result, "confidence", RatZero),
          xai_explanation |-> xai_explanation,
          execution_time |-> execution_time]

\* lines 129-153, on what execute_action and explain_decision gave: the
\* response returned, or the HTTPException raised to the framework
AfterExplain(agent_type, action, result, explained, execution_time) ==
    IF IsExc(result) THEN ExecuteAgentExcept(result)
    ELSE IF IsExc(explained) THEN ExecuteAgentExcept(explained)
    ELSE IF IsExc(AgentResponse(agent_type, action, result, explained,
                                execution_time))
    THEN ExecuteAgentExcept(AgentResponse(agent_type, action, result,
                                          explained, execution_time))
    ELSE AgentResponse(agent_type, action, result, explained, execution_time)

\* lines 124-125 with the except clause of line 151, which also catches the
\* HTTPException raised at line 125
UnknownAgentType(agent_type) ==
    ExecuteAgentExcept(
        HTTPException(400, << "Unknown agent type: ", agent_type >>))

\* ------------------------------------------------------------------------- state
VARIABLES
    performance_metrics,  \* self.performance_metrics of the agent
    result,               \* what the last execute_action call gave its caller
    request,              \* id of the last call's request, "none" before it
    trace,                \* per completed call: was a handler made to raise,
                          \* and the success value the caller received
    elapsed_sum,          \* sum of the execution times of the completed calls
    attributes,           \* the agent's other attributes
    last_ops,             \* the methods called last and before it, oldest first
    status,               \* what the last get_status or get_performance_metrics
                          \* call returned, still held by its caller
    status_seen,          \* the metrics as they were when that call returned
    other_metrics,        \* performance_metrics of a second TraderAgent
    xai,                  \* the XAIExplainer of the service
    response,             \* what the last execute_agent call gave the framework
    suspended,            \* the calls waiting at an await of their handler,
                          \* oldest first, each with the time it has taken
    completed,            \* request id and elapsed time of the calls completed
                          \* while calls may overlap, in order of completion
    overlapped,           \* has a call started while another was suspended
    drawn                 \* the arguments drawn for a call of one handler, or None

agentVars == << performance_metrics, result, request, trace, elapsed_sum,
                attributes >>
statusVars == << status, status_seen >>
serviceVars == << xai, response >>
overlapVars == << suspended, completed, overlapped >>
vars == << performance_metrics, result, request, trace, elapsed_sum,
           attributes, last_ops, status, status_seen, other_metrics, xai,
           response, suspended, completed, overlapped, drawn >>

Init ==
    /\ performance_metrics = InitialMetrics
    /\ result = None
    /\ request = "none"
    /\ trace = << >>
    /\ elapsed_sum = 0
    /\ attributes = InitialAttributes("agent-1")
    /\ last_ops = << >>
    /\ status = None
    /\ status_seen = None
    /\ other_metrics = InitialMetrics
    /\ xai = InitialExplainer
    /\ response = None
    /\ suspended = << >>
    /\ completed = << >>
    /\ overlapped = FALSE
    /\ drawn = None

\* the record of the last two calls after a call of method op
Did(op) ==
    IF Len(last_ops) < 2 THEN Append(last_ops, op) ELSE << last_ops[2], op >>

LastOp == IF last_ops = << >> THEN "none" ELSE last_ops[Len(last_ops)]
PrevOp == IF Len(last_ops) < 2 THEN "none" ELSE last_ops[1]

\* what a value a caller holds shows when the caller reads it now
Held(x) == IF DOMAIN x = {"ref"} THEN performance_metrics ELSE x

\* the metrics of the second agent after a call left the first agent's dict
\* as pm: the same dict if both attributes are bound to one object
OtherAfter(pm, other) ==
    IF MetricsObject("agent-2") = MetricsObject("agent-1") THEN pm ELSE other

\* one execute_action call on the agent, by whichever caller
Call(req, t, rnd) ==
    /\ performance_metrics.total_requests < MaxCalls
    /\ \E out \in {execute_action(performance_metrics, req.action, req.parameters,
                                 req.treasury_data, RatInt(t), rnd)} :
           /\ performance_metrics' = out.pm
           /\ result' = out.ret
           /\ trace' = Append(trace,
                              [malformed |-> req.id \in MalformedIds,
                               success |-> Get(out.ret, "success", FALSE)])
           /\ attributes' = AttributesAfter(attributes, req.action, out.ret)
           /\ other_metrics' = OtherAfter(out.pm, other_metrics)
    /\ request' = req.id
    /\ elapsed_sum' = elapsed_sum + t

ExecuteAction(req, t, rnd) ==
    /\ Call(req, t, rnd)
    /\ last_ops' = Did("execute_action")
    /\ UNCHANGED << statusVars, serviceVars, overlapVars, drawn >>

Next ==
    \E i \in 1..Len(Requests) :
        \E t \in 1..MaxElapsed :
            \E rnd \in Draws(Requests[i]) :
                ExecuteAction(Requests[i], t, rnd)

Spec == Init /\ [][Next]_vars

\* ---------------------------------------------------- status calls between calls
\* the requests the smaller specifications draw from
SampleIds ==
    {"rebalance_scenario", "rebalance_no_context", "trade_valid", "unknown_hedge"}

SomeCall ==
    \E id \in SampleIds :
        \E t \in 1..MaxElapsed :
            \E rnd \in Draws(Req(id)) :
                ExecuteAction(Req(id), t, rnd)

GetStatus ==
    /\ \E out \in {get_status(attributes, performance_metrics)} :
           /\ status' = out.ret
           /\ status_seen' = out.pm
           /\ performance_metrics' = out.pm
           /\ attributes' = out.attrs
           /\ other_metrics' = OtherAfter(out.pm, other_metrics)
    /\ last_ops' = Did("get_status")
    /\ UNCHANGED << result, request, trace, elapsed_sum, serviceVars,
                    overlapVars, drawn >>

GetPerformanceMetrics ==
    /\ \E out \in {get_performance_metrics(attributes, performance_metrics)} :
           /\ status' = out.ret
           /\ status_seen' = out.pm
           /\ performance_metrics' = out.pm
           /\ attributes' = out.attrs
           /\ other_metrics' = OtherAfter(out.pm, other_metrics)
    /\ last_ops' = Did("get_performance_metrics")
    /\ UNCHANGED << result, request, trace, elapsed_sum, serviceVars,
                    overlapVars, drawn >>

NextStatus == SomeCall \/ GetStatus \/ GetPerformanceMetrics

SpecStatus == Init /\ [][NextStatus]_vars

\* ------------------------------------------------------------------- two agents
MaxOtherCalls == 1

\* the metrics of the first agent after a call left the second agent's dict as pm
OwnAfter(pm, own) ==
    IF MetricsObject("agent-1") = MetricsObject("agent-2") THEN pm ELSE own

\* one execute_action call on the second agent
ExecuteActionOther(req, t, rnd) ==
    /\ other_metrics.total_requests < MaxOtherCalls
    /\ \E out \in {execute_action(other_metrics, req.action, req.parameters,
                                 req.treasury_data, RatInt(t), rnd)} :
           /\ other_metrics' = out.pm
           /\ performance_metrics' = OwnAfter(out.pm, performance_metrics)
    /\ last_ops' = Did("other.execute_action")
    /\ UNCHANGED << result, request, trace, elapsed_sum, attributes,
                    statusVars, serviceVars, overlapVars, drawn >>

SomeOtherCall ==
    \E id \in SampleIds :
        \E t \in 1..MaxElapsed :
            \E rnd \in Draws(Req(id)) :
                ExecuteActionOther(Req(id), t, rnd)

NextAgents == SomeCall \/ SomeOtherCall

SpecAgents == Init /\ [][NextAgents]_vars

\* ------------------------------------------------------------------ the service
\* agent types a client may name: the one whose class is at hand and one the
\* registry lacks
AgentTypes == {"trader", "oracle"}

\* the requests a client posts
ServiceIds == {"rebalance_scenario", "trade_valid", "unknown_hedge"}

MaxServed == 2

\* POST /agents/execute
ExecuteAgent(agent_type, req, t, rnd, fault) ==
    /\ performance_metrics.total_requests < MaxServed
    /\ IF agent_type \notin Agents
       THEN /\ response' = UnknownAgentType(agent_type)
            /\ UNCHANGED << agentVars, other_metrics, xai >>
       ELSE /\ Call(req, t, rnd)
            /\ \E ex \in {explain_decision(xai, agent_type, req.action,
                                            req.parameters, result', fault)} :
                   /\ xai' = ex.xai
                   /\ response' = AfterExplain(agent_type, req.action, result',
                                               ex.ret, RatInt(t))
    /\ last_ops' = Did("execute_agent")
    /\ UNCHANGED << statusVars, overlapVars, drawn >>

NextService ==
    \E agent_type \in AgentTypes :
        \E id \in ServiceIds :
            \E t \in 1..MaxElapsed :
                \E rnd \in Draws(Req(id)) :
                    \E fault \in Faults :
                        ExecuteAgent(agent_type, Req(id), t, rnd, fault)

SpecService == Init /\ [][NextService]_vars

\* ------------------------------------------------------------ overlapping calls
\* Does a call reach an await of a data source (lines 153, 249, 296, 338),
\* where the event loop may run another call?  rebalance and the unknown
\* action have none; the loops of risk_analysis and yield_prediction reach
\* theirs only for a first asset or strategy.
ReachesAwait(action, parameters) ==
    /\ IsDict(parameters)
    /\ \/ action \in {"optimize_portfolio", "execute_trade"}
       \/ /\ action = "risk_analysis"
          /\ Len(Get(parameters.v, "assets", << >>)) > 0
       \/ /\ action = "yield_prediction"
          /\ Len(Get(parameters.v, "strategies",
                     << "conservative", "moderate", "aggressive" >>)) > 0

\* a handler that works on the metrics it saw before it was suspended
MetricsAtResume_Stale(now, seen) == seen

\* The metrics a resumed call works on: every statement after the await reads
\* self.performance_metrics[...] anew, none holds a copy across the await.
MetricsAtResume(now, seen) == now

\* the requests of overlapping calls
OverlapIds ==
    {"trade_valid", "trade_no_amount", "rebalance_scenario", "unknown_hedge"}

\* the suspended calls after time t has passed
Aged(calls, t) == [i \in 1..Len(calls) |-> [calls[i] EXCEPT !.age = @ + t]]

\* may time t pass without a suspended call exceeding the longest call
MayAge(calls, t) == \A i \in 1..Len(calls) : calls[i].age + t <= MaxElapsed

Without(calls, i) ==
    [j \in 1..(Len(calls) - 1) |-> IF j < i THEN calls[j] ELSE calls[j + 1]]

\* lines 107-108 and the handler up to its await
Start(req) ==
    /\ performance_metrics.total_requests < MaxCalls
    /\ ReachesAwait(req.action, req.parameters)
    /\ performance_metrics' = CountRequest(performance_metrics)
    /\ other_metrics' = OtherAfter(CountRequest(performance_metrics), other_metrics)
    /\ suspended' = Append(suspended,
                           [id |-> req.id, age |-> 0,
                            seen |-> CountRequest(performance_metrics)])
    /\ overlapped' = (overlapped \/ Len(suspended) > 0)
    /\ last_ops' = Did("execute_action")
    /\ UNCHANGED << result, request, trace, elapsed_sum, attributes, completed,
                    statusVars, serviceVars, drawn >>

\* time passes while calls are suspended
Tick ==
    /\ Len(suspended) > 0
    /\ MayAge(suspended, 1)
    /\ suspended' = Aged(suspended, 1)
    /\ UNCHANGED << agentVars, last_ops, other_metrics, completed, overlapped,
                    statusVars, serviceVars, drawn >>

\* the i-th suspended call resumes: the rest of its handler and lines 124-147
Finish(i, rnd) ==
    /\ suspended[i].age >= 1
    /\ \E out \in {AfterDispatch(
                       Dispatch(MetricsAtResume(performance_metrics,
                                                suspended[i].seen),
                                Req(suspended[i].id).action,
                                Req(suspended[i].id).parameters,
                                Req(suspended[i].id).treasury_data, rnd),
                       Req(suspended[i].id).action,
                       RatInt(suspended[i].age))} :
           /\ performance_metrics' = out.pm
           /\ result' = out.ret
           /\ trace' = Append(trace,
                              [malformed |-> suspended[i].id \in MalformedIds,
                               success |-> Get(out.ret, "success", FALSE)])
           /\ attributes' = AttributesAfter(attributes,
                                            Req(suspended[i].id).action, out.ret)
           /\ other_metrics' = OtherAfter(out.pm, other_metrics)
    /\ request' = suspended[i].id
    /\ elapsed_sum' = elapsed_sum + suspended[i].age
    /\ completed' = Append(completed,
                           [id |-> suspended[i].id, t |-> suspended[i].age])
    /\ suspended' = Without(suspended, i)
    /\ UNCHANGED << last_ops, overlapped, statusVars, serviceVars, drawn >>

\* a call without an await runs from line 107 to its return in one piece
RunThrough(req, t, rnd) ==
    /\ ~ReachesAwait(req.action, req.parameters)
    /\ MayAge(suspended, t)
    /\ Call(req, t, rnd)
    /\ suspended' = Aged(suspended, t)
    /\ completed' = Append(completed, [id |-> req.id, t |-> t])
    /\ overlapped' = (overlapped \/ Len(suspended) > 0)
    /\ last_ops' = Did("execute_action")
    /\ UNCHANGED << statusVars, serviceVars, drawn >>

NextOverlap ==
    \/ \E id \in OverlapIds : Start(Req(id))
    \/ Tick
    \/ \E i \in 1..Len(suspended) :
           \E rnd \in Draws(Req(suspended[i].id)) : Finish(i, rnd)
    \/ \E id \in OverlapIds :
           \E t \in 1..MaxElapsed :
               \E rnd \in Draws(Req(id)) : RunThrough(Req(id), t, rnd)

SpecOverlap == Init /\ [][NextOverlap]_vars

\* ------------------------------------------------------- one handler on drawn input
\* the allocation percentages drawn
Pcts == {Rat(1, 10), Rat(5, 10), Rat(6, 10)}

TargetAssets == {"A", "B", "C", "D"}

\* the orders in which a caller's target_allocations dict lists its keys
TargetOrders == {<< "A", "B", "C", "D" >>, << "D", "B", "A", "C" >>}

\* target_allocations dicts: the first n assets of an order, each with a percentage
TargetDraws ==
    {[i \in 1..n |-> << order[i], pct[order[i]] >>] :
         n \in 0..4, order \in TargetOrders, pct \in [TargetAssets -> Pcts]}

\* current_allocations dicts: none held, the treasury's, one with an asset no
\* target names
CurrentDraws ==
    {<< >>,
     << << "A", Rat(5, 10) >>, << "B", Rat(5, 10) >> >>,
     << << "B", Rat(5, 10) >>, << "E", Rat(5, 10) >> >>}

\* parameters of a rebalance call, with and without min_trade_size
RebalanceParameterDraws ==
    {Dict([target_allocations |-> targets]) : targets \in TargetDraws}
    \cup {Dict([target_allocations |-> targets, min_trade_size |-> RatInt(m)]) :
              targets \in TargetDraws, m \in {100, 1000}}

\* treasury_data of a rebalance call, with and without total_value_usd; the
\* handler accepts any number as the total value
RebalanceTreasuryDraws ==
    {Dict([current_allocations |-> current]) : current \in CurrentDraws}
    \cup {Dict([current_allocations |-> current,
                total_value_usd |-> RatInt(v)]) :
              current \in CurrentDraws, v \in {10000, -10000}}

RebalanceDraws ==
    {[action |-> "rebalance", parameters |-> p, treasury_data |-> d,
      rnd |-> NoDraw] :
         p \in RebalanceParameterDraws, d \in RebalanceTreasuryDraws}

\* a series whose 5th percentile puts an evenly held pair on a threshold
Steep == [var_95 |-> Rat(-18, 100), cvar_95 |-> Rat(-20, 100),
          volatility |-> Rat(6, 100), mean |-> Rat(-1, 100)]

\* parameters of a risk_analysis call: the assets, with and without a horizon
\* too short for any series
RiskParameterDraws ==
    {Dict([assets |-> assets]) :
         assets \in {<< >>, << "A" >>, << "A", "B" >>, << "C", "B" >>}}
    \cup {Dict([assets |-> << "A", "B" >>, time_horizon |-> 0])}

RiskDraws ==
    {[action |-> "risk_analysis", parameters |-> p,
      treasury_data |-> Dict([current_allocations |-> current]),
      rnd |-> [NoDraw EXCEPT !.samples = samples]] :
         p \in RiskParameterDraws, current \in CurrentDraws,
         samples \in [1..2 -> SeriesDraws \cup {Steep}]}

DrawnInputs == RebalanceDraws \cup RiskDraws

\* a fresh agent and the arguments of the one call made on it
InitDrawn ==
    /\ performance_metrics = InitialMetrics
    /\ result = None
    /\ request = "none"
    /\ trace = << >>
    /\ elapsed_sum = 0
    /\ attributes = InitialAttributes("agent-1")
    /\ last_ops = << >>
    /\ status = None
    /\ status_seen = None
    /\ other_metrics = InitialMetrics
    /\ xai = InitialExplainer
    /\ response = None
    /\ suspended = << >>
    /\ completed = << >>
    /\ overlapped = FALSE
    /\ drawn \in DrawnInputs

\* execute_action with the drawn arguments
CallDrawn ==
    /\ request = "none"
    /\ Call([id |-> "drawn", action |-> drawn.action,
             parameters |-> drawn.parameters,
             treasury_data |-> drawn.treasury_data], 1, drawn.rnd)
    /\ last_ops' = Did("execute_action")
    /\ UNCHANGED << statusVars, serviceVars, overlapVars, drawn >>

NextDrawn == CallDrawn

SpecDrawn == InitDrawn /\ [][NextDrawn]_vars

\* ------------------------------------------------------------------- type sanity
TypeOK ==
    /\ performance_metrics.total_requests \in 0..MaxCalls
    /\ performance_metrics.successful_trades \in 0..MaxCalls
    /\ performance_metrics.total_trades \in 0..MaxCalls
    /\ request \in RequestIds \cup {"none", "drawn"}
    /\ Len(trace) + Len(suspended) = performance_metrics.total_requests

\* -------------------------------------------------------------------- properties
\* a part of a string built from parts
Contains(str, part) == \E i \in 1..Len(str) : str[i] = part

Called == request # "none"
Action == Req(request).action
Returned == Called /\ ~IsExc(result)

\* requests with well-formed parameters of a registered action and a context
ValidIds ==
    {"optimize_valid", "rebalance_scenario", "rebalance_default_min",
     "rebalance_two_trades", "risk_valid", "yield_default", "trade_valid"}

\* C1: a call with an action name outside the registered five does not raise;
\* it returns success = false, confidence = 0.0 and an error string that
\* contains the action name.
UnknownActionFails ==
    (Called /\ Action \notin RegisteredActions) =>
        /\ ~IsExc(result)
        /\ "success" \in DOMAIN result /\ result.success = FALSE
        /\ "confidence" \in DOMAIN result /\ result.confidence = RatZero
        /\ "error" \in DOMAIN result /\ Contains(result.error, Action)

UnknownActionFailed ==
    /\ request = "unknown_hedge"
    /\ Returned
    /\ result.success = FALSE
    /\ Contains(result.error, "hedge")

\* C2 (as claimed): after every call that has returned, success_rate equals
\* successful_trades / total_requests whenever total_requests > 0.
SuccessRateIsRatio ==
    (Returned /\ performance_metrics.total_requests > 0) =>
        performance_metrics.success_rate =
            Rat(performance_metrics.successful_trades,
                performance_metrics.total_requests)

\* C3 (as claimed): after N sequential calls with elapsed times t1..tN,
\* avg_response_time equals (t1 + ... + tN) / N.
AvgIsMeanOfElapsed ==
    (Returned /\ performance_metrics.total_requests > 0) =>
        performance_metrics.avg_response_time =
            Rat(elapsed_sum, performance_metrics.total_requests)

\* C4: no call lets an exception reach its caller; a call whose handler is
\* made to raise by missing or malformed parameters or context, and a call
\* with an unknown action, returns a result with success = false.
NeverPropagates ==
    Called =>
        /\ ~IsExc(result)
        /\ "success" \in DOMAIN result
        /\ (request \in MalformedIds \/ Action \notin RegisteredActions)
               => result.success = FALSE

HandlerRaiseReturned ==
    /\ request = "rebalance_no_context"
    /\ Returned
    /\ result.success = FALSE
    /\ "error" \in DOMAIN result

\* C5: in every result returned, success = false implies confidence = 0.0 and an
\* error field, and success = true implies no error field.
FailureShape ==
    Returned =>
        /\ "success" \in DOMAIN result
        /\ "confidence" \in DOMAIN result
        /\ result.success = FALSE =>
               (result.confidence = RatZero /\ "error" \in DOMAIN result)
        /\ result.success = TRUE => "error" \notin DOMAIN result

SimulatedFailureReturned ==
    /\ request = "trade_valid"
    /\ Returned
    /\ result.success = FALSE
    /\ result.confidence = RatZero

\* C6 (as claimed): every result returned carries an action field equal to the
\* action name requested.
ResultCarriesAction ==
    Returned =>
        ("action" \in DOMAIN result /\ result.action = Action)

\* C7 (as claimed): a registered action with valid parameters and a context
\* returns success = true with a confidence in [0, 1].
ValidRequestSucceeds ==
    (Returned /\ request \in ValidIds) =>
        /\ result.success = TRUE
        /\ RatLeq(RatZero, result.confidence)
        /\ RatLeq(result.confidence, RatOne)

\* C8: each call adds exactly 1 to total_requests whatever its action and
\* outcome: after N calls on a fresh agent total_requests = N.
TotalRequestsCountsCalls ==
    performance_metrics.total_requests = Len(trace)

MixedCallsCounted ==
    /\ Len(trace) = 3
    /\ performance_metrics.total_requests = 3
    /\ ~trace[1].success
    /\ trace[2].success
    /\ Action \notin RegisteredActions

\* C9: a call adds exactly 1 to successful_trades if and only if the result it
\* returns has success = true; a call returning success = false leaves it.
SuccessCountedIffSuccess ==
    [][ /\ ~IsExc(result')
        /\ "success" \in DOMAIN result'
        /\ result'.success = TRUE =>
               performance_metrics'.successful_trades =
                   performance_metrics.successful_trades + 1
        /\ result'.success = FALSE =>
               performance_metrics'.successful_trades =
                   performance_metrics.successful_trades ]_vars

SuccessThenFailureCounted ==
    /\ Len(trace) = 2
    /\ trace[1].success
    /\ ~trace[2].success
    /\ performance_metrics.successful_trades = 1

\* C10: on a fresh agent, three calls of which the first and third succeed and
\* the second has its handler raise internally leave total_requests = 3,
\* successful_trades = 2 and success_rate = 2/3.
ThreeCallsOneRaise ==
    (/\ Len(trace) = 3
     /\ trace[1].success
     /\ trace[2].malformed
     /\ trace[3].success) =>
        /\ performance_metrics.total_requests = 3
        /\ performance_metrics.successful_trades = 2
        /\ performance_metrics.success_rate = Rat(2, 3)

ThreeCallsOneRaiseDone ==
    /\ Len(trace) = 3
    /\ trace[1].success
    /\ trace[2].malformed /\ ~trace[2].success
    /\ trace[3].success
    /\ performance_metrics.success_rate = Rat(2, 3)

\* C11 (as claimed): rebalance with targets {A: 0.6, B: 0.4}, current
\* allocations {A: 0.5, B: 0.5}, total value 10000 and min_trade_size 100 gives
\* exactly one trade, a buy of A with amount 1000.
ScenarioHasOneTrade ==
    (Returned /\ request = "rebalance_scenario") =>
        /\ Len(result.trades) = 1
        /\ result.trades[1].asset = "A"
        /\ result.trades[1].action = "buy"
        /\ result.trades[1].amount = RatInt(1000)

\* C11 (amended): that call gives exactly two trades, in the order of the
\* targets: a buy of A and a sell of B, each with amount 1000.
ScenarioHasTwoTrades ==
    (Returned /\ request = "rebalance_scenario") =>
        /\ result.success = TRUE
        /\ Len(result.trades) = 2
        /\ result.trades[1].asset = "A"
        /\ result.trades[1].action = "buy"
        /\ result.trades[1].amount = RatInt(1000)
        /\ result.trades[2].asset = "B"
        /\ result.trades[2].action = "sell"
        /\ result.trades[2].amount = RatInt(1000)

ScenarioRebalanced ==
    /\ request = "rebalance_scenario"
    /\ Returned
    /\ result.total_trades = 2
    /\ result.total_trade_value = RatInt(2000)

\* C12: total_requests, successful_trades and total_trades are non-negative
\* integers, successful_trades <= total_requests, and success_rate is in [0, 1].
MetricsInRange ==
    /\ performance_metrics.total_requests \in Nat
    /\ performance_metrics.successful_trades \in Nat
    /\ performance_metrics.total_trades \in Nat
    /\ performance_metrics.successful_trades <= performance_metrics.total_requests
    /\ RatLeq(RatZero, performance_metrics.success_rate)
    /\ RatLeq(performance_metrics.success_rate, RatOne)

MetricsMixed ==
    /\ performance_metrics.total_requests = 3
    /\ performance_metrics.successful_trades = 1
    /\ performance_metrics.total_trades = 2
    /\ performance_metrics.success_rate = Rat(1, 3)

\* a result made by the except clause of execute_action from a division by zero
DivisionFailed ==
    /\ Returned
    /\ {"error", "action"} \subseteq DOMAIN result
    /\ \/ Contains(result.error, "float division by zero")
       \/ Contains(result.error, "division by zero")

\* C16: the metrics update never divides by zero: success_rate is 0.0 while
\* total_requests is 0, and once execute_action has run total_requests is at
\* least 1, so neither division of the update fails.
NoDivisionByZero ==
    /\ performance_metrics.total_requests = 0 =>
           performance_metrics.success_rate = RatZero
    /\ Called => performance_metrics.total_requests >= 1
    /\ ~DivisionFailed

FirstCallDivided ==
    /\ Called
    /\ performance_metrics.total_requests = 1
    /\ performance_metrics.success_rate = RatOne
    /\ performance_metrics.avg_response_time = RatInt(elapsed_sum)

\* C18 (as claimed): a handler is a pure function of (parameters, context): a
\* call that repeats the previous call's action, parameters and context
\* returns the same success value.
HandlersArePure ==
    [][(Called /\ request' = request /\ Returned /\ ~IsExc(result'))
          => result'.success = result.success]_vars

StatusOps == {"get_status", "get_performance_metrics"}

\* the metrics inside the value the last status call returned
ReturnedMetrics ==
    IF "capabilities" \in DOMAIN status THEN status.performance_metrics ELSE status

\* what the caller of the last status call reads as the metrics now
HeldMetrics == Held(ReturnedMetrics)

\* C13: over any sequence of execute_action, get_status and
\* get_performance_metrics calls, total_requests, successful_trades and
\* total_trades never decrease, so none of them is ever reset.
CountersNeverDecrease ==
    [][/\ performance_metrics'.total_requests >= performance_metrics.total_requests
       /\ performance_metrics'.successful_trades >=
              performance_metrics.successful_trades
       /\ performance_metrics'.total_trades >= performance_metrics.total_trades]_vars

CountedAcrossStatusCalls ==
    /\ PrevOp = "get_performance_metrics"
    /\ LastOp = "execute_action"
    /\ status_seen.total_requests = 2
    /\ performance_metrics.total_requests = 3
    /\ performance_metrics.successful_trades = 2
    /\ performance_metrics.total_trades = 1

\* C14: get_status and get_performance_metrics change no state of the agent,
\* and a status call that directly follows another returns the same metrics;
\* get_status returns the agent's agent_id and the fixed capability list.
StatusCallsReadOnly ==
    [][LastOp' \in StatusOps =>
          /\ performance_metrics' = performance_metrics
          /\ attributes' = attributes
          /\ other_metrics' = other_metrics
          /\ LastOp \in StatusOps => status_seen' = status_seen
          /\ LastOp' = "get_status" =>
                 /\ status'.agent_id = attributes.agent_id
                 /\ status'.capabilities = Capabilities
                 /\ HeldMetrics' = status_seen']_vars

StatusAskedTwice ==
    /\ last_ops = << "get_status", "get_status" >>
    /\ status_seen.total_requests = 2
    /\ HeldMetrics = status_seen

\* C15 (as claimed): the metrics a caller received from get_status or
\* get_performance_metrics stay equal to the metrics at the time of the call,
\* whatever execute_action calls follow.
StatusIsSnapshot ==
    status # None => HeldMetrics = status_seen

\* C17: execute_action leaves agent_id, is_trained, the presence of the model,
\* market_data_cache and last_predictions as they were.
ExecuteKeepsAttributes ==
    [][LastOp' = "execute_action" => attributes' = attributes]_vars

TradeKeptAttributes ==
    /\ LastOp = "execute_action"
    /\ performance_metrics.total_trades = 2
    /\ performance_metrics.successful_trades = 1
    /\ attributes = InitialAttributes("agent-1")

\* C19: whatever fails inside explain_decision, it returns a string, and
\* execute_agent answers a call that reached the agent with the action's
\* result and confidence, not with an error.
ExplainerNeverFailsAction ==
    [][(LastOp' = "execute_agent" /\
        performance_metrics'.total_requests > performance_metrics.total_requests)
          => /\ ~IsExc(response')
             /\ response'.result = result'
             /\ response'.confidence = result'.confidence
             /\ IsText(response'.xai_explanation)]_vars

ExplainerFailedActionAnswered ==
    /\ LastOp = "execute_agent"
    /\ ~IsExc(response)
    /\ response.result.success = TRUE
    /\ response.xai_explanation.text[1] = "Unable to generate explanation: "
    /\ xai.explanation_cache = << >>

\* C20: an execute_action call on one TraderAgent leaves the metrics of the
\* other TraderAgent unchanged.
AgentsShareNoMetrics ==
    [][/\ LastOp' = "execute_action" => other_metrics' = other_metrics
       /\ LastOp' = "other.execute_action" =>
              performance_metrics' = performance_metrics]_vars

BothAgentsCalled ==
    /\ performance_metrics.total_requests = 2
    /\ performance_metrics.successful_trades = 0
    /\ other_metrics.total_requests = 1
    /\ other_metrics.successful_trades = 1

\* two calls of registered actions have overlapped and both have completed
TwoOverlappedDone ==
    /\ Len(suspended) = 0
    /\ overlapped
    /\ Len(completed) = 2
    /\ \A i \in 1..2 : Req(completed[i].id).action \in RegisteredActions

\* C21: when two execute_action calls overlap, the first suspended at an await
\* of its handler, then after both have completed with elapsed times t1 and t2
\* (in order of completion) avg_response_time is t1/4 + t2/2, which is not the
\* arithmetic mean of t1 and t2.
OverlapSkewsAverage ==
    TwoOverlappedDone =>
        /\ performance_metrics.avg_response_time =
               RatAdd(Rat(completed[1].t, 4), Rat(completed[2].t, 2))
        /\ performance_metrics.avg_response_time #
               Rat(completed[1].t + completed[2].t, 2)

TwoTradesOverlapped ==
    /\ TwoOverlappedDone
    /\ completed[1] = [id |-> "trade_valid", t |-> 1]
    /\ completed[2] = [id |-> "trade_valid", t |-> 2]
    /\ performance_metrics.avg_response_time = Rat(5, 4)

\* C22: once every overlapping call has completed, total_requests is the
\* number of calls, successful_trades is the number of results with success =
\* true, and success_rate is their ratio unless the call that completed last
\* was an unknown action.
OverlapLosesNoCount ==
    Len(suspended) = 0 =>
        /\ performance_metrics.total_requests = Len(completed)
        /\ performance_metrics.successful_trades =
               Cardinality({i \in 1..Len(trace) : trace[i].success})
        /\ (Called /\ Action \in RegisteredActions) =>
               performance_metrics.success_rate =
                   Rat(performance_metrics.successful_trades,
                       performance_metrics.total_requests)

ThreeOverlappedCounted ==
    /\ Len(suspended) = 0
    /\ overlapped
    /\ Len(completed) = 3
    /\ \A i \in 1..3 : completed[i].id \in {"trade_valid", "trade_no_amount"}
    /\ performance_metrics.total_requests = 3
    /\ performance_metrics.successful_trades = 2
    /\ performance_metrics.success_rate = Rat(2, 3)

\* C23 (as claimed): a POST to /agents/execute that names an agent type
\* outside the registry is answered with status 400 and the detail
\* 'Unknown agent type: ...'.
UnknownTypeAnswered400 ==
    (IsExc(response) /\ Contains(response.detail, "Unknown agent type: ")) =>
        response.status_code = 400

\* the amount parameter of the last call is a number
NumericAmount ==
    /\ IsDict(Req(request).parameters)
    /\ IsNum(Get(Req(request).parameters.v, "amount", None))

DrawnTargets == Get(drawn.parameters.v, "target_allocations", << >>)
DrawnCurrent(a) ==
    ItemsGet(Get(drawn.treasury_data.v, "current_allocations", << >>), a, RatZero)
DrawnTotal == Get(drawn.treasury_data.v, "total_value_usd", RatZero)
DrawnMinTrade == Get(drawn.parameters.v, "min_trade_size", RatInt(1000))
DrawnAssets == TargetAssets \cup {"E"}

RebalanceSucceeded ==
    /\ Called
    /\ drawn.action = "rebalance"
    /\ Returned
    /\ result.success = TRUE

Traded(a) == \E i \in 1..Len(result.trades) : result.trades[i].asset = a

\* C25 (as claimed): a successful rebalance trades asset a exactly when a is a
\* key of target_allocations and |target(a) - current(a)| * total_value_usd >
\* min_trade_size (1000 by default), current(a) being 0 for an asset not held.
TradedIffDifferenceLarge ==
    RebalanceSucceeded =>
        \A a \in DrawnAssets :
            Traded(a) <=>
                \E j \in 1..Len(DrawnTargets) :
                    /\ DrawnTargets[j][1] = a
                    /\ RatLt(DrawnMinTrade,
                             RatMul(RatAbs(RatSub(DrawnTargets[j][2],
                                                  DrawnCurrent(a))),
                                    DrawnTotal))

\* C25 (amended): a successful rebalance trades asset a exactly when a is a
\* key of target_allocations and |target(a) - current(a)| * |total_value_usd|
\* > min_trade_size (1000 by default), current(a) being 0 for an asset not
\* held; an asset that only current_allocations names is never traded.
TradedIffTradeValueLarge ==
    RebalanceSucceeded =>
        \A a \in DrawnAssets :
            Traded(a) <=>
                \E j \in 1..Len(DrawnTargets) :
                    /\ DrawnTargets[j][1] = a
                    /\ RatLt(DrawnMinTrade,
                             RatMul(RatAbs(RatSub(DrawnTargets[j][2],
                                                  DrawnCurrent(a))),
                                    RatAbs(DrawnTotal)))

BoundaryTradeSkipped ==
    /\ RebalanceSucceeded
    /\ DrawnTargets = << << "A", Rat(6, 10) >>, << "B", Rat(6, 10) >> >>
    /\ DrawnCurrent("B") = Rat(5, 10)
    /\ DrawnCurrent("E") = Rat(5, 10)
    /\ DrawnTotal = RatInt(10000)
    /\ "min_trade_size" \notin DOMAIN drawn.parameters.v
    /\ Traded("A") /\ ~Traded("B") /\ ~Traded("E")

\* the target of the i-th trade, as the caller gave it
TargetOf(a) ==
    DrawnTargets[CHOOSE j \in 1..Len(DrawnTargets) : DrawnTargets[j][1] = a][2]

\* C26 (as claimed): in a successful rebalance each trade is a buy iff target >
\* current and a sell otherwise, with amount |target - current| * total value;
\* total_trades is the number of trades, total_trade_value the sum of their
\* amounts, execution_order lists the traded assets in the order of trades and
\* batch_size is min(3, number of trades).
TradeSidesFollowTargets ==
    RebalanceSucceeded =>
        /\ \A i \in 1..Len(result.trades) :
               LET a == result.trades[i].asset
               IN  /\ result.trades[i].action =
                          (IF RatLt(DrawnCurrent(a), TargetOf(a))
                           THEN "buy" ELSE "sell")
                   /\ result.trades[i].amount =
                          RatMul(RatAbs(RatSub(TargetOf(a), DrawnCurrent(a))),
                                 DrawnTotal)
        /\ result.total_trades = Len(result.trades)
        /\ result.total_trade_value = SumAmounts(result.trades, 1)
        /\ result.execution_plan.execution_order =
               [i \in 1..Len(result.trades) |-> result.trades[i].asset]
        /\ result.execution_plan.batch_size = Min(3, Len(result.trades))

\* C26 (amended): in a successful rebalance each trade is a buy iff
\* (target - current) * total value > 0 and a sell otherwise, with amount
\* |target - current| * |total value|; total_trades is the number of trades,
\* total_trade_value the sum of their amounts, execution_order lists the
\* traded assets in the order of trades and batch_size is min(3, number of
\* trades).
TradeSidesFollowTradeValue ==
    RebalanceSucceeded =>
        /\ \A i \in 1..Len(result.trades) :
               LET a == result.trades[i].asset
               IN  /\ result.trades[i].action =
                          (IF RatLt(RatZero,
                                    RatMul(RatSub(TargetOf(a), DrawnCurrent(a)),
                                           DrawnTotal))
                           THEN "buy" ELSE "sell")
                   /\ result.trades[i].amount =
                          RatMul(RatAbs(RatSub(TargetOf(a), DrawnCurrent(a))),
                                 RatAbs(DrawnTotal))
        /\ result.total_trades = Len(result.trades)
        /\ result.total_trade_value = SumAmounts(result.trades, 1)
        /\ result.execution_plan.execution_order =
               [i \in 1..Len(result.trades) |-> result.trades[i].asset]
        /\ result.execution_plan.batch_size = Min(3, Len(result.trades))

FourTradesPlanned ==
    /\ RebalanceSucceeded
    /\ result.total_trades = 4
    /\ result.execution_plan.batch_size = 3
    /\ result.execution_plan.execution_order = << "D", "B", "A", "C" >>
    /\ result.trades[2].action = "sell"
    /\ result.trades[3].action = "buy"
    /\ DrawnTotal = RatInt(10000)

\* the strategies a yield_prediction call asks for
Strategies ==
    Get(Req(request).parameters.v, "strategies",
        << "conservative", "moderate", "aggressive" >>)
StrategySet == {Strategies[i] : i \in 1..Len(Strategies)}

\* C27: a yield_prediction that returns success = true has one prediction per
\* distinct requested strategy and recommends one of the requested names, a
\* name outside the table being evaluated with the moderate allocations; with
\* an empty strategies list or time_horizon = 0 the call returns success =
\* false and does not raise.
YieldCoversStrategies ==
    (Called /\ Action = "yield_prediction") =>
        /\ Returned
        /\ result.success = TRUE =>
               /\ {result.predictions[i][1] : i \in 1..Len(result.predictions)}
                      = StrategySet
               /\ Len(result.predictions) = Cardinality(StrategySet)
               /\ result.recommended_strategy \in StrategySet
               /\ \A i \in 1..Len(result.predictions) :
                      result.predictions[i][1]
                          \notin {"conservative", "moderate", "aggressive"}
                      => result.predictions[i][2].allocations = ModerateAllocations
        /\ (\/ Strategies = << >>
            \/ Get(Req(request).parameters.v, "time_horizon", 365) = 0)
               => result.success = FALSE

UnknownStrategyRecommended ==
    /\ request = "yield_custom"
    /\ Returned
    /\ result.success = TRUE
    /\ Len(result.predictions) = 2
    /\ result.recommended_strategy = "degen"

\* the arguments of a drawn risk_analysis call
DrawnRiskAssets == Get(drawn.parameters.v, "assets", << >>)
DrawnHeld == Get(drawn.treasury_data.v, "current_allocations", << >>)

\* the assets the call analysed: those whose series is not empty
Analysed ==
    IF Get(drawn.parameters.v, "time_horizon", 30) * 2 > 0
    THEN {DrawnRiskAssets[i] : i \in 1..Len(DrawnRiskAssets)}
    ELSE {}

Var95(a) ==
    drawn.rnd.samples[CHOOSE i \in 1..Len(DrawnRiskAssets) :
                          DrawnRiskAssets[i] = a].var_95

\* the sum of allocation * var_95 over the held assets from the i-th on that
\* were analysed
RECURSIVE SharedVar(_)
SharedVar(i) ==
    IF i > Len(DrawnHeld) THEN RatZero
    ELSE IF DrawnHeld[i][1] \in Analysed
    THEN RatAdd(RatMul(DrawnHeld[i][2], Var95(DrawnHeld[i][1])), SharedVar(i + 1))
    ELSE SharedVar(i + 1)

RiskSucceeded ==
    /\ Called
    /\ drawn.action = "risk_analysis"
    /\ Returned
    /\ result.success = TRUE

\* C28: in a successful risk_analysis the portfolio VaR is the sum of
\* allocation * var_95 over the assets both held and analysed (0 if there is
\* none), and risk_level is low iff VaR > -0.05, medium iff -0.10 < VaR <=
\* -0.05, high iff VaR <= -0.10.
RiskLevelFollowsVar ==
    RiskSucceeded =>
        /\ result.portfolio_var_95 = SharedVar(1)
        /\ result.risk_level = "low" <=> RatLt(Rat(-5, 100), SharedVar(1))
        /\ result.risk_level = "medium" <=>
               (RatLt(Rat(-10, 100), SharedVar(1)) /\
                RatLeq(SharedVar(1), Rat(-5, 100)))
        /\ result.risk_level = "high" <=> RatLeq(SharedVar(1), Rat(-10, 100))
        /\ (\A i \in 1..Len(DrawnHeld) : DrawnHeld[i][1] \notin Analysed) =>
               (result.portfolio_var_95 = RatZero /\ result.risk_level = "low")

VarOnThreshold ==
    /\ RiskSucceeded
    /\ DrawnRiskAssets = << "A", "B" >>
    /\ result.portfolio_var_95 = Rat(-10, 100)
    /\ result.risk_level = "high"

====
